---- MODULE Spec2Model ----
(***************************************************************************)
(* Model of app.py: the Flask handler analyze_image of POST /analyze, the  *)
(* process-wide Gemini client handle `model`, and the imaging and          *)
(* filename helpers the handler calls.  Each request is a process whose    *)
(* steps are the statements of the handler; requests interleave freely.    *)
(***************************************************************************)
EXTENDS Integers, Sequences, FiniteSets, TLC

VARIABLES api_key, model, req

vars == <<api_key, model, req>>

(* ---------------------------------------------------------------- bounds *)

\* Number of requests the model lets arrive (handled concurrently).
MaxReqs == 2

Reqs == 1..MaxReqs

(* ------------------------------------------------------------- constants *)

\* max_size = (800, 800)
max_size == 800

\* PIL.Image.MAX_IMAGE_PIXELS; Image.open raises DecompressionBombError for
\* an image of more than twice this many pixels.
MAX_IMAGE_PIXELS == 89478485

\* The value of `model` after a failed configuration, and after a good one.
None == "None"
GenerativeModel == "GenerativeModel"

NotConfiguredMsg == "Gemini API not configured. Check server logs."
NoFileMsg == "No image file provided"
NoSelectionMsg == "No image selected"
TooLargeMsg == "Image is too large or corrupt. Please use a smaller image."
FlaggedMsg == "Analysis failed or content flagged by API."
InternalMsg == "An internal error occurred during analysis."
InvalidFileMsg == "Invalid file uploaded"

(* ------------------------------------------------------ secure_filename *)

\* for sep in os.sep, os.path.altsep: filename = filename.replace(sep, " ")
ReplaceSep(s) == [i \in 1..Len(s) |-> IF s[i] = "/" THEN " " ELSE s[i]]

\* "_".join(filename.split()): the whitespace-separated words, joined by "_".
RECURSIVE JoinWords(_, _, _)
JoinWords(s, acc, gap) ==
  IF s = <<>> THEN acc
  ELSE IF Head(s) = " " THEN JoinWords(Tail(s), acc, acc # <<>>)
  ELSE JoinWords(Tail(s), (IF gap THEN Append(acc, "_") ELSE acc) \o <<Head(s)>>, FALSE)

\* _filename_ascii_strip_re.sub("", ...): only [A-Za-z0-9_.-] survive.
AsciiStrip(s) == SelectSeq(s, LAMBDA c : c \in {"a", "b", "j", "_", ".", "-"})

\* str.strip("._")
RECURSIVE LStrip(_)
LStrip(s) ==
  IF s # <<>> /\ Head(s) \in {".", "_"} THEN LStrip(Tail(s)) ELSE s

RECURSIVE RStrip(_)
RStrip(s) ==
  IF s # <<>> /\ s[Len(s)] \in {".", "_"} THEN RStrip(SubSeq(s, 1, Len(s) - 1)) ELSE s

secure_filename(s) == RStrip(LStrip(AsciiStrip(JoinWords(ReplaceSep(s), <<>>, FALSE))))

\* FileStorage.__bool__: bool(self.filename)
FileTruthy(declared) == declared # <<>>

(* ------------------------------------------------------------- imaging *)

\* ImageOps.exif_transpose: EXIF orientations 5..8 exchange the two axes.
exif_transpose(img, orient) ==
  IF orient \in 5..8 THEN [w |-> img.h, h |-> img.w] ELSE img

Abs(n) == IF n < 0 THEN -n ELSE n

\* Image.thumbnail's round_aspect for the image's height (w > h):
\* max(min(floor(n), ceil(n), key = |aspect - x/n|, 0 if n = 0), 1).
RoundHeight(w, h, x) ==
  LET f == (x * h) \div w
      c == IF (x * h) % w = 0 THEN f ELSE f + 1
      pick == IF f = 0 THEN f
              ELSE IF Abs(w * f - x * h) * c <= Abs(w * c - x * h) * f THEN f ELSE c
  IN  IF pick < 1 THEN 1 ELSE pick

\* Image.thumbnail's round_aspect for the image's width (w <= h):
\* max(min(floor(n), ceil(n), key = |aspect - n/y|), 1).
RoundWidth(w, h, y) ==
  LET f == (y * w) \div h
      c == IF (y * w) % h = 0 THEN f ELSE f + 1
      pick == IF Abs(y * w - f * h) <= Abs(y * w - c * h) THEN f ELSE c
  IN  IF pick < 1 THEN 1 ELSE pick

\* Faulty variant of thumbnail: plain truncating division, no clamp to 1.
thumbnail_truncating(img, bound) ==
  IF bound >= img.w /\ bound >= img.h THEN img
  ELSE IF img.h >= img.w
       THEN [w |-> (bound * img.w) \div img.h, h |-> bound]
       ELSE [w |-> bound, h |-> (bound * img.h) \div img.w]

\* img.thumbnail(max_size, LANCZOS): the size preserve_aspect_ratio gives.
thumbnail(img, bound) ==
  IF bound >= img.w /\ bound >= img.h THEN img
  ELSE IF img.h >= img.w
       THEN [w |-> RoundWidth(img.w, img.h, bound), h |-> bound]
       ELSE [w |-> bound, h |-> RoundHeight(img.w, img.h, bound)]

(* ------------------------------------------------------------ requests *)

\* Declared filenames of the `image` part, as character sequences.
Filenames == { <<>>, <<".", ".", "/">>, <<"a", "/", "b">> }

Img(w, h) == [w |-> w, h |-> h]

\* An uploaded byte buffer: kind "empty" (no bytes), "truncated" (a cut
\* header) or "image" (a decodable header of w x h pixels with an EXIF
\* orientation); intact = FALSE when the pixel data after the header is cut,
\* mode is the pixel format.
Upload(kind, w, h, orient, intact, mode) ==
  [kind |-> kind, w |-> w, h |-> h, orient |-> orient, intact |-> intact, mode |-> mode]

NoUpload == Upload("none", 0, 0, 1, TRUE, "RGB")

Uploads ==
  { Upload("empty", 0, 0, 1, TRUE, "RGB"),
    Upload("truncated", 0, 0, 1, TRUE, "RGB"),
    Upload("image", 640, 480, 1, TRUE, "RGB"),
    Upload("image", 1500, 2000, 6, TRUE, "RGB"),
    Upload("image", 1000, 1000, 1, FALSE, "RGB"),
    Upload("image", 1200, 900, 1, TRUE, "I;16"),
    Upload("image", 20000, 20000, 1, TRUE, "RGB") }

\* What model.generate_content can do: return a response that carries text,
\* return one with no usable part (its .text raises ValueError), raise
\* StopCandidateException, or raise any other exception.
Texts == { "", "a cat on a sofa" }
ErrorDetails == { "503 network unreachable", "429 quota exceeded" }

NoResult == [kind |-> "none", text |-> "", detail |-> ""]

CallResults ==
  { [kind |-> "text", text |-> t, detail |-> ""] : t \in Texts }
  \cup { [kind |-> "no_text", text |-> "", detail |-> "prompt blocked"],
         [kind |-> "stop_candidate", text |-> "", detail |-> "finish_reason: SAFETY"] }
  \cup { [kind |-> "error", text |-> "", detail |-> d] : d \in ErrorDetails }

\* A POST /analyze request: whether the multipart body has an `image` part,
\* the part's declared filename and its bytes.
Request(hasImage, declared, upload) ==
  [hasImage |-> hasImage, declared |-> declared, upload |-> upload]

RequestsOver(uploads) ==
  { Request(FALSE, <<>>, NoUpload) }
  \cup { Request(TRUE, f, u) : f \in Filenames, u \in uploads }

\* jsonify({key: value}), status
Response(status, key, value) == [status |-> status, key |-> key, value |-> value]

IdleRequest ==
  [ pc |-> "idle", hasImage |-> FALSE, declared |-> <<>>, filename |-> <<>>,
    upload |-> NoUpload, img |-> Img(0, 0), result |-> NoResult,
    trace |-> <<>>, calls |-> 0, log |-> <<>>, responses |-> <<>> ]

\* Module start-up: the try/except around genai.configure. api_key is
\* whether GEMINI_API_KEY is set.
Configure(key) == IF ~key THEN None ELSE GenerativeModel

Init ==
  /\ api_key \in BOOLEAN
  /\ model = Configure(api_key)
  /\ req = [r \in Reqs |-> IdleRequest]

\* The handler returns: the response goes out and the request is over.
Return(q, resp) == [q EXCEPT !.pc = "done", !.responses = Append(@, resp)]

\* except Image.DecompressionBombError
OnDecompressionBomb(q) ==
  Return([q EXCEPT !.log = Append(@, "Image is too large")],
         Response(400, "error", TooLargeMsg))

\* except StopCandidateException as e
OnStopCandidate(q, detail) ==
  Return([q EXCEPT !.log = Append(@, detail)], Response(500, "error", FlaggedMsg))

\* Faulty variant of OnException: the exception's text goes into the body.
OnException_Leaking(q, detail) ==
  Return([q EXCEPT !.log = Append(@, detail)],
         Response(500, "error", "An internal error occurred: " \o detail))

\* except Exception as e
OnException(q, detail) ==
  Return([q EXCEPT !.log = Append(@, detail)], Response(500, "error", InternalMsg))

Step(q, at, name) == [q EXCEPT !.pc = at, !.trace = Append(@, name)]

(* ------------------------------------------------------------- handler *)

\* The framework dispatches a POST /analyze to analyze_image.
Arrive(r, requests) ==
  /\ req[r].pc = "idle"
  /\ \E in \in requests :
       req' = [req EXCEPT ![r] =
         [@ EXCEPT !.pc = "start", !.hasImage = in.hasImage,
                   !.declared = in.declared, !.upload = in.upload]]
  /\ UNCHANGED <<api_key, model>>

\* Faulty variant of CheckModel: no test of the handle.
CheckModel_Unguarded(r) ==
  /\ req[r].pc = "start"
  /\ req' = [req EXCEPT ![r].pc = "field"]
  /\ UNCHANGED <<api_key, model>>

\* if model is None: return 500
CheckModel(r) ==
  /\ req[r].pc = "start"
  /\ req' = [req EXCEPT ![r] =
       IF model = None
       THEN Return(@, Response(500, "error", NotConfiguredMsg))
       ELSE [@ EXCEPT !.pc = "field"]]
  /\ UNCHANGED <<api_key, model>>

\* if 'image' not in request.files: return 400
CheckField(r) ==
  /\ req[r].pc = "field"
  /\ req' = [req EXCEPT ![r] =
       IF ~@.hasImage
       THEN Return(@, Response(400, "error", NoFileMsg))
       ELSE [@ EXCEPT !.pc = "name"]]
  /\ UNCHANGED <<api_key, model>>

\* Faulty variant of NameChecked: the emptiness test reads the declared
\* filename instead of the sanitized one.
NameChecked_Declared(q) ==
  LET q1 == [q EXCEPT !.filename = secure_filename(q.declared)]
  IN  IF q.declared = <<>>
      THEN Return(q1, Response(400, "error", NoSelectionMsg))
      ELSE Step(q1, "read", "validated")

\* Faulty variant of NameChecked: no emptiness test at all.
NameChecked_Untested(q) ==
  Step([q EXCEPT !.filename = secure_filename(q.declared)], "read", "validated")

\* filename = secure_filename(file.filename); the filename == '' test, the
\* `if file:` test and the final return.
NameChecked(q) ==
  LET q1 == [q EXCEPT !.filename = secure_filename(q.declared)]
  IN  IF q1.filename = <<>>
      THEN Return(q1, Response(400, "error", NoSelectionMsg))
      ELSE IF FileTruthy(q.declared)
           THEN Step(q1, "read", "validated")
           ELSE Return(q1, Response(400, "error", InvalidFileMsg))

CheckName(r) ==
  /\ req[r].pc = "name"
  /\ req' = [req EXCEPT ![r] = NameChecked(@)]
  /\ UNCHANGED <<api_key, model>>

\* img_bytes = file.read()
ReadBytes(r) ==
  /\ req[r].pc = "read"
  /\ \E ok \in BOOLEAN :
       req' = [req EXCEPT ![r] =
         IF ok THEN Step(@, "open", "read") ELSE OnException(@, "OSError: read failed")]
  /\ UNCHANGED <<api_key, model>>

\* img = Image.open(io.BytesIO(img_bytes))
Opened(q) ==
  LET u == q.upload
  IN  IF u.kind # "image"
      THEN OnException(q, "UnidentifiedImageError: cannot identify image file")
      ELSE IF u.w * u.h > 2 * MAX_IMAGE_PIXELS
           THEN OnDecompressionBomb(q)
           ELSE Step([q EXCEPT !.img = Img(u.w, u.h)], "transpose", "decoded")

Open(r) ==
  /\ req[r].pc = "open"
  /\ req' = [req EXCEPT ![r] = Opened(@)]
  /\ UNCHANGED <<api_key, model>>

\* img = ImageOps.exif_transpose(img): loads the pixel data
Transposed(q) ==
  IF ~q.upload.intact
  THEN OnException(q, "OSError: image file is truncated")
  ELSE Step([q EXCEPT !.img = exif_transpose(@, q.upload.orient)], "thumbnail", "oriented")

Transpose(r) ==
  /\ req[r].pc = "transpose"
  /\ req' = [req EXCEPT ![r] = Transposed(@)]
  /\ UNCHANGED <<api_key, model>>

\* img.thumbnail(max_size, Image.Resampling.LANCZOS); a resize with a
\* filter the pixel format does not support raises ValueError.
Resized(q) ==
  IF q.upload.mode = "I;16" /\ thumbnail(q.img, max_size) # q.img
  THEN OnException(q, "ValueError: image has wrong mode")
  ELSE Step([q EXCEPT !.img = thumbnail(@, max_size)], "generate", "resized")

Thumbnail(r) ==
  /\ req[r].pc = "thumbnail"
  /\ req' = [req EXCEPT ![r] = Resized(@)]
  /\ UNCHANGED <<api_key, model>>

\* Faulty variant of Generated: a failed call is tried a second time.
Generated_Retrying(q, res) ==
  LET q1 == [q EXCEPT !.calls = @ + (IF res.kind = "error" THEN 2 ELSE 1),
                      !.result = res, !.trace = Append(@, "called")]
  IN  CASE res.kind = "stop_candidate" -> OnStopCandidate(q1, res.detail)
        [] res.kind = "error" -> OnException(q1, res.detail)
        [] OTHER -> [q1 EXCEPT !.pc = "text"]

\* response = model.generate_content([prompt, processed_img])
Generated(q, res) ==
  LET q1 == [q EXCEPT !.calls = @ + 1, !.result = res, !.trace = Append(@, "called")]
  IN  CASE res.kind = "stop_candidate" -> OnStopCandidate(q1, res.detail)
        [] res.kind = "error" -> OnException(q1, res.detail)
        [] OTHER -> [q1 EXCEPT !.pc = "text"]

Generate(r) ==
  /\ req[r].pc = "generate"
  /\ \E res \in CallResults : req' = [req EXCEPT ![r] = Generated(@, res)]
  /\ UNCHANGED <<api_key, model>>

\* Faulty variant of Extracted: the response object is returned unread.
Extracted_Unread(q) ==
  Return(q, Response(200, "description", "<GenerateContentResponse>"))

\* Faulty variant of Extracted: the ValueError of response.text escapes.
Extracted_Escaping(q) ==
  IF q.result.kind = "text"
  THEN Return(q, Response(200, "description", q.result.text))
  ELSE [q EXCEPT !.pc = "raised"]

\* detected_items = response.text; return jsonify({"description": ...})
Extracted(q) ==
  IF q.result.kind = "text"
  THEN Return(q, Response(200, "description", q.result.text))
  ELSE OnException(q, "ValueError: response.text: " \o q.result.detail)

ExtractText(r) ==
  /\ req[r].pc = "text"
  /\ req' = [req EXCEPT ![r] = Extracted(@)]
  /\ UNCHANGED <<api_key, model>>

Handle(r) ==
    \/ CheckModel(r)
    \/ CheckField(r)
    \/ CheckName(r)
    \/ ReadBytes(r)
    \/ Open(r)
    \/ Transpose(r)
    \/ Thumbnail(r)
    \/ Generate(r)
    \/ ExtractText(r)

Next ==
  \E r \in Reqs :
    \/ Arrive(r, RequestsOver(Uploads))
    \/ Handle(r)

Spec == Init /\ [][Next]_vars

(* ---------------------------------------- normalisation of one image *)

\* Image sizes tried for the orientation fix and the downscaling: around 1,
\* around max_size and its multiples, and very long or very flat images.
Dims == { 1, 2, 3, 7, 533, 799, 800, 801, 1067, 1199, 1600, 1601, 2000, 2401, 12000 }

Orientations == 1..8

NormUploads ==
  { Upload("image", w, h, o, TRUE, "RGB") : w \in Dims, h \in Dims, o \in Orientations }

NormRequests == { Request(TRUE, <<"a", "/", "b">>, u) : u \in NormUploads }

\* One request at a time, its image drawn from NormUploads.
NextNorm == Arrive(1, NormRequests) \/ Handle(1)

SpecNorm == Init /\ [][NextNorm]_vars

(* --------------------------------------------------------- properties *)

Finished(r) == req[r].pc = "done"

\* The response the caller of request r got.
Answer(r) == req[r].responses[1]

Did(r, name) == \E i \in 1..Len(req[r].trace) : req[r].trace[i] = name

Configured == model # None

\* The bytes are no image at all: an empty buffer or a cut header.
NotAnImage(r) == req[r].upload.kind \in {"empty", "truncated"}

\* The bytes are a complete image that PIL decodes, loads and can resize.
ValidImage(r) ==
  /\ req[r].upload.kind = "image"
  /\ req[r].upload.intact
  /\ req[r].upload.mode = "RGB"
  /\ req[r].upload.w * req[r].upload.h <= 2 * MAX_IMAGE_PIXELS

\* C1: with the client configured, a request with the image field, a
\* filename that passes the name test and bytes that are not an image is
\* answered 400.
C1_UndecodableIs400 ==
  \A r \in Reqs :
    (Configured /\ Finished(r) /\ Did(r, "read") /\ NotAnImage(r))
      => Answer(r).status = 400

\* C2 (as stated): a request with no image field, or with an empty declared
\* filename, is answered 400 with an error key.
C2_MissingInputIs400 ==
  \A r \in Reqs :
    (Finished(r) /\ (~req[r].hasImage \/ req[r].declared = <<>>))
      => (Answer(r).status = 400 /\ Answer(r).key = "error")

\* C2 (amended): with the client configured, a request with no image field
\* is answered 400 "No image file provided" and one with an empty declared
\* filename 400 "No image selected"; neither is read or sent to the model.
C2_MissingInputIs400WhenConfigured ==
  \A r \in Reqs :
    (Configured /\ Finished(r) /\ (~req[r].hasImage \/ req[r].declared = <<>>))
      => /\ Answer(r) = Response(400, "error",
                          IF req[r].hasImage THEN NoSelectionMsg ELSE NoFileMsg)
         /\ req[r].trace = <<>>
         /\ req[r].calls = 0

C2_Witness ==
  /\ Configured
  /\ \E r \in Reqs : Finished(r) /\ ~req[r].hasImage
  /\ \E r \in Reqs : Finished(r) /\ req[r].hasImage /\ req[r].declared = <<>>

\* C3: with no credential at start-up the handle is None and stays None,
\* the external model is never called, and every finished request,
\* whatever it carried, got 500 with the not-configured message.
C3_UnconfiguredAlways500 ==
  ~api_key =>
    /\ model = None
    /\ \A r \in Reqs :
         /\ req[r].calls = 0
         /\ req[r].trace = <<>>
         /\ req[r].pc \in {"idle", "start", "done"}
         /\ Finished(r) => Answer(r) = Response(500, "error", NotConfiguredMsg)

C3_Witness ==
  /\ ~api_key
  /\ \E r1, r2 \in Reqs :
       /\ Finished(r1) /\ req[r1].hasImage /\ ValidImage(r1)
       /\ secure_filename(req[r1].declared) # <<>>
       /\ Finished(r2) /\ (~req[r2].hasImage \/ NotAnImage(r2))

\* C4 (as stated): a valid image, the client configured and a model call
\* that returns give 200 with a non-empty description.
C4_ReturnedCallIs200 ==
  \A r \in Reqs :
    (Configured /\ Finished(r) /\ ValidImage(r) /\ Did(r, "called")
       /\ req[r].result.kind \in {"text", "no_text"})
      => /\ Answer(r).status = 200
         /\ Answer(r).key = "description"
         /\ Answer(r).value # ""

\* C4 (amended): when the returned response carries text, the answer is 200
\* with `description` holding exactly that text (so non-empty whenever the
\* model's text is); a returned response with no usable text gives 500.
C4_ReturnedTextIs200 ==
  \A r \in Reqs :
    (Configured /\ Finished(r) /\ ValidImage(r) /\ Did(r, "called"))
      => /\ req[r].result.kind = "text"
             => Answer(r) = Response(200, "description", req[r].result.text)
         /\ req[r].result.kind = "no_text" => Answer(r).status = 500

C4_Witness ==
  \E r \in Reqs :
    /\ Configured /\ Finished(r) /\ ValidImage(r) /\ Did(r, "called")
    /\ req[r].result.kind = "text"
    /\ req[r].result.text # ""
    /\ req[r].upload.w > max_size

\* C5: when the model refuses or stops early (StopCandidateException, or a
\* response with no usable text), the answer is 500 with the
\* analysis-failed-or-flagged message.
C5_RefusalIsFlagged ==
  \A r \in Reqs :
    (Finished(r) /\ Did(r, "called")
       /\ req[r].result.kind \in {"stop_candidate", "no_text"})
      => Answer(r) = Response(500, "error", FlaggedMsg)

\* A failure that is none of: missing input, undecodable or oversized
\* image, unconfigured client, model refusal.
OtherFailure(r) ==
  /\ Finished(r)
  /\ \/ req[r].result.kind = "error"
     \/ req[r].log = <<"OSError: read failed">>
     \/ req[r].log = <<"ValueError: image has wrong mode">>

\* C6: any two requests that fail with such a failure get the same status
\* and body, 500 and the fixed internal-error message, whatever the
\* exception said.
C6_OtherFailuresAnswerAlike ==
  \A r1, r2 \in Reqs :
    (OtherFailure(r1) /\ OtherFailure(r2))
      => /\ Answer(r1) = Answer(r2)
         /\ Answer(r1) = Response(500, "error", InternalMsg)

C6_Witness ==
  \E r1, r2 \in Reqs :
    /\ OtherFailure(r1) /\ OtherFailure(r2)
    /\ req[r1].result.kind = "error" /\ req[r2].result.kind = "error"
    /\ req[r1].log # req[r2].log

\* The places of the handler from which one of its steps goes on.
Running == { "start", "field", "name", "read", "open", "transpose",
             "thumbnail", "generate", "text" }

\* C7: a request never leaves the handler by an exception: it is waiting,
\* at a statement of the handler, or finished; it has no response until it
\* finishes and then exactly one, 200 with `description` or 400/500 with
\* `error`.
C7_AlwaysOneJsonResponse ==
  \A r \in Reqs :
    /\ req[r].pc \in {"idle", "done"} \cup Running
    /\ Len(req[r].responses) = (IF Finished(r) THEN 1 ELSE 0)
    /\ Finished(r) =>
         /\ Answer(r).status \in {200, 400, 500}
         /\ Answer(r).status = 200 => Answer(r).key = "description"
         /\ Answer(r).status \in {400, 500} => Answer(r).key = "error"

C7_Witness ==
  /\ \E r \in Reqs : Finished(r) /\ Answer(r).status = 200
  /\ \E r \in Reqs : Finished(r) /\ Did(r, "called") /\ req[r].result.kind = "no_text"

\* C8: one request calls the external model at most once, only after the
\* upload was validated, read, decoded, oriented and resized, in that order;
\* a request answered 400 never called it.
C8_OneCallAfterNormalisation ==
  \A r \in Reqs :
    /\ req[r].calls <= 1
    /\ req[r].calls = (IF Did(r, "called") THEN 1 ELSE 0)
    /\ Did(r, "called") =>
         req[r].trace = <<"validated", "read", "decoded", "oriented", "resized", "called">>
    /\ (Finished(r) /\ Answer(r).status = 400) => req[r].calls = 0

C8_Witness ==
  /\ \E r \in Reqs : Finished(r) /\ req[r].calls = 1 /\ req[r].result.kind = "error"
  /\ \E r \in Reqs : Finished(r) /\ Answer(r).status = 400 /\ Did(r, "read")

\* The decoded size with the EXIF orientation applied.
OrientedW(r) == IF req[r].upload.orient \in {5, 6, 7, 8} THEN req[r].upload.h ELSE req[r].upload.w
OrientedH(r) == IF req[r].upload.orient \in {5, 6, 7, 8} THEN req[r].upload.w ELSE req[r].upload.h

Max(a, b) == IF a >= b THEN a ELSE b

\* C9: the image handed to the model has both sides in 1..800; its aspect
\* ratio is that of the oriented image up to less than one pixel on the
\* scaled side; an oriented image already within 800 x 800 is unchanged.
C9_NormalisedSize ==
  \A r \in Reqs :
    Did(r, "resized") =>
      LET w == OrientedW(r)
          h == OrientedH(r)
          n == req[r].img
      IN  /\ n.w \in 1..max_size
          /\ n.h \in 1..max_size
          /\ Abs(n.w * h - n.h * w) < Max(w, h)
          /\ (w <= max_size /\ h <= max_size) => (n.w = w /\ n.h = h)
          /\ (w > max_size \/ h > max_size) => Max(n.w, n.h) = max_size

C9_Witness ==
  \E r \in Reqs :
    /\ Did(r, "called")
    /\ req[r].upload.orient = 6
    /\ req[r].upload.w = 1 /\ req[r].upload.h = 12000
    /\ req[r].img = Img(max_size, 1)

\* C10: with the client configured, once the name test has run on a request
\* that has the image field: a filename that sanitizes to the empty string
\* ends the request at once with 400 "No image selected", nothing read and
\* the model not called; any other filename enters the pipeline. No request
\* is ever answered "Invalid file uploaded".
C10_SanitizedNameDecides ==
  \A r \in Reqs :
    /\ (Configured /\ req[r].hasImage /\ req[r].pc \notin {"idle", "start", "field", "name"})
         => IF req[r].filename = <<>>
            THEN /\ Finished(r)
                 /\ Answer(r) = Response(400, "error", NoSelectionMsg)
                 /\ req[r].trace = <<>>
                 /\ req[r].calls = 0
            ELSE Did(r, "validated")
    /\ Finished(r) => Answer(r).value # InvalidFileMsg

C10_Witness ==
  /\ Configured
  /\ \E r \in Reqs :
       /\ Finished(r) /\ req[r].declared = <<".", ".", "/">> /\ ValidImage(r)
       /\ Answer(r) = Response(400, "error", NoSelectionMsg)
  /\ \E r \in Reqs : Finished(r) /\ req[r].filename = <<"a", "_", "b">>

====
